---- MODULE Spec2Model ----
(***************************************************************************)
(* Model of src/src/components/TableOfContents.vue: the table-of-contents  *)
(* component that extracts the h2/h3/h4 headings of article.prose, tracks  *)
(* the active heading on scroll/resize and scrolls to a heading on click.  *)
(*                                                                         *)
(* Strings are sequences of one-character strings.  Pixel positions are    *)
(* integers.  offsetTop and getBoundingClientRect().top + pageYOffset are  *)
(* both the document-absolute top of an element (the headings' offset      *)
(* parent is the page body).                                               *)
(***************************************************************************)
EXTENDS Integers, Sequences, FiniteSets, TLC

VARIABLES
    article,      \* TRUE iff document.querySelector('article.prose') finds an element
    dom,          \* the document's heading elements, in document order
    scrollY,      \* window.scrollY (= window.pageYOffset)
    headings,     \* ref<Heading[]>
    activeId,     \* ref<string>
    isVisible,    \* ref(false)
    phase,        \* "created" | "mounted" | "unmounted"
    listeners,    \* number of registrations of handleScroll per event type
    hash,         \* fragment of the current URL, as last set by history.pushState
    pushes,       \* number of history.pushState calls
    scrollTarget, \* <<top>> of the last window.scrollTo call, <<>> if none
    lastOp,       \* the operation that produced this state
    lastArg,      \* the id passed to the last scrollToHeading call
    genInput,     \* argument of a generateId call
    genCalled,    \* TRUE once generateId(genInput) has returned
    genResult     \* the returned string

vars == <<article, dom, scrollY, headings, activeId, isVisible, phase, listeners,
          hash, pushes, scrollTarget, lastOp, lastArg, genInput, genCalled, genResult>>

compVars == <<article, dom, scrollY, headings, activeId, isVisible, phase, listeners,
              hash, pushes, scrollTarget, lastOp, lastArg>>

genVars == <<genInput, genCalled, genResult>>

----------------------------------------------------------------------------
(* Bounds *)

MaxTextLen == 4      \* longest text given to generateId in SpecGen
MaxHeadings == 2     \* most heading elements in a document
MaxStep == 5         \* positions are 0, 50, ..., 50 * MaxStep pixels
MaxPushes == 1       \* most history.pushState calls in one run

----------------------------------------------------------------------------
(* Strings *)

UpperChars == <<"A","B","C","D","E","F","G","H","I","J","K","L","M",
                "N","O","P","Q","R","S","T","U","V","W","X","Y","Z">>
LowerChars == <<"a","b","c","d","e","f","g","h","i","j","k","l","m",
                "n","o","p","q","r","s","t","u","v","w","x","y","z">>
DigitChars == <<"0","1","2","3","4","5","6","7","8","9">>

Range(s) == {s[i] : i \in 1..Len(s)}

\* String.prototype.toLowerCase, one character
LowerChar(c) ==
    IF c \in Range(UpperChars)
    THEN LowerChars[CHOOSE i \in 1..Len(UpperChars) : UpperChars[i] = c]
    ELSE c

toLowerCase(s) == [i \in 1..Len(s) |-> LowerChar(s[i])]

\* \w : [A-Za-z0-9_]
IsWord(c) == c \in Range(UpperChars) \cup Range(LowerChars) \cup Range(DigitChars) \cup {"_"}

\* \s : white space
IsSpace(c) == c \in {" ", "\t", "\n"}

\* .replace(/[^\w\s-]/g, '')
StripSymbols(s) == SelectSeq(s, LAMBDA c : IsWord(c) \/ IsSpace(c) \/ c = "-")

\* .replace(/\s+/g, '-') : every maximal run of white space becomes one hyphen
RECURSIVE SpacesToHyphen(_)
SpacesToHyphen(s) ==
    IF s = <<>> THEN <<>>
    ELSE IF IsSpace(Head(s))
         THEN IF Len(s) > 1 /\ IsSpace(s[2])
              THEN SpacesToHyphen(Tail(s))
              ELSE <<"-">> \o SpacesToHyphen(Tail(s))
         ELSE <<Head(s)>> \o SpacesToHyphen(Tail(s))

\* .replace(/-+/g, '-') : every maximal run of hyphens becomes one hyphen
RECURSIVE CollapseHyphens(_)
CollapseHyphens(s) ==
    IF s = <<>> THEN <<>>
    ELSE IF Head(s) = "-" /\ Len(s) > 1 /\ s[2] = "-"
         THEN CollapseHyphens(Tail(s))
         ELSE <<Head(s)>> \o CollapseHyphens(Tail(s))

\* String.prototype.trim : removes leading and trailing white space
RECURSIVE TrimStart(_)
TrimStart(s) ==
    IF s # <<>> /\ IsSpace(Head(s)) THEN TrimStart(Tail(s)) ELSE s

RECURSIVE TrimEnd(_)
TrimEnd(s) ==
    IF s # <<>> /\ IsSpace(s[Len(s)]) THEN TrimEnd(SubSeq(s, 1, Len(s) - 1)) ELSE s

trim(s) == TrimEnd(TrimStart(s))

\* generateId without the .replace(/-+/g, '-') call
generateIdNoCollapse(text) ==
    trim(SpacesToHyphen(StripSymbols(toLowerCase(text))))

generateId(text) ==
    trim(CollapseHyphens(SpacesToHyphen(StripSymbols(toLowerCase(text)))))

----------------------------------------------------------------------------
(* generateId on bounded inputs *)

GenAlphabet == {"A", "b", " ", "-", "&", "_"}

RECURSIVE TextsUpTo(_)
TextsUpTo(n) ==
    IF n = 0 THEN {<<>>}
    ELSE LET shorter == TextsUpTo(n - 1)
         IN  shorter \cup {Append(t, c) : t \in {u \in shorter : Len(u) = n - 1},
                                          c \in GenAlphabet}

ScenarioText == <<"A","P","I"," ","&"," ","U","s","a","g","e","!">>

GenTexts == TextsUpTo(MaxTextLen) \cup {ScenarioText}

CompIdle ==
    /\ article = FALSE
    /\ dom = <<>>
    /\ scrollY = 0
    /\ headings = <<>>
    /\ activeId = <<>>
    /\ isVisible = FALSE
    /\ phase = "created"
    /\ listeners = [scroll |-> 0, resize |-> 0]
    /\ hash = <<>>
    /\ pushes = 0
    /\ scrollTarget = <<>>
    /\ lastOp = "init"
    /\ lastArg = <<>>

GenInit ==
    /\ CompIdle
    /\ genInput \in GenTexts
    /\ genCalled = FALSE
    /\ genResult = <<>>

CallGenerateId ==
    /\ ~genCalled
    /\ genResult' = generateId(genInput)
    /\ genCalled' = TRUE
    /\ UNCHANGED <<genInput, compVars>>

GenNext == CallGenerateId

SpecGen == GenInit /\ [][GenNext]_vars

----------------------------------------------------------------------------
(* The document *)

\* querySelectorAll('h2, h3, h4') matches these tag names
\* querySelectorAll('h1, h2, h3, h4')
SelectedTagsWithTitle == {<<"H","1">>, <<"H","2">>, <<"H","3">>, <<"H","4">>}

SelectedTags == {<<"H","2">>, <<"H","3">>, <<"H","4">>}

\* Number.parseInt of a one-character string
parseInt(c) == CHOOSE n \in 0..9 : DigitChars[n + 1] = c

\* article.querySelectorAll('h2, h3, h4'): the indices in dom, in document order
RECURSIVE MatchFrom(_, _, _)
MatchFrom(d, a, i) ==
    IF i > Len(d) THEN <<>>
    ELSE IF a /\ d[i].inArticle /\ d[i].tagName \in SelectedTags
         THEN <<i>> \o MatchFrom(d, a, i + 1)
         ELSE MatchFrom(d, a, i + 1)

headingElements(d, a) == MatchFrom(d, a, 1)

\* document.getElementById: index of the first element with that id, 0 for null
getElementById(d, id) ==
    IF id # <<>> /\ \E i \in 1..Len(d) : d[i].id = id
    THEN CHOOSE i \in 1..Len(d) : d[i].id = id /\ \A j \in 1..(i - 1) : d[j].id # id
    ELSE 0

----------------------------------------------------------------------------
(* extractHeadings *)

\* ResolvedId regenerating the id from the text even when el.id is set
ResolvedIdFromText(el) == generateId(el.textContent)

\* const id = el.id || generateId(el.textContent || '')
ResolvedId(el) == IF el.id # <<>> THEN el.id ELSE generateId(el.textContent)

\* AssignIds storing the heading's raw text instead of the resolved id
AssignIdsRaw(d, a) ==
    [i \in 1..Len(d) |->
        IF a /\ d[i].inArticle /\ d[i].tagName \in SelectedTags /\ d[i].id = <<>>
        THEN [d[i] EXCEPT !.id = d[i].textContent]
        ELSE d[i]]

\* if (!el.id) el.id = id
AssignIds(d, a) ==
    [i \in 1..Len(d) |->
        IF a /\ d[i].inArticle /\ d[i].tagName \in SelectedTags /\ d[i].id = <<>>
        THEN [d[i] EXCEPT !.id = ResolvedId(d[i])]
        ELSE d[i]]

\* extracted.push({ id, text, level })
HeadingOf(el) ==
    [id |-> ResolvedId(el), text |-> el.textContent, level |-> parseInt(el.tagName[2])]

\* Extracted collecting the entries in reverse document order
ExtractedReversed(d, a) ==
    LET sel == headingElements(d, a)
    IN  [k \in 1..Len(sel) |-> HeadingOf(d[sel[Len(sel) + 1 - k]])]

Extracted(d, a) ==
    LET sel == headingElements(d, a)
    IN  [k \in 1..Len(sel) |-> HeadingOf(d[sel[k]])]

\* extractHeadings falling back to the whole document when article is null
extractHeadingsWholeDocument(d, a, old) ==
    IF a THEN Extracted(d, a)
    ELSE LET sel == SelectSeq(d, LAMBDA el : el.tagName \in SelectedTags)
         IN  [k \in 1..Len(sel) |-> HeadingOf(sel[k])]

\* headings.value after extractHeadings(): unchanged when article is null
extractHeadings(d, a, old) == IF ~a THEN old ELSE Extracted(d, a)

----------------------------------------------------------------------------
(* updateActiveHeading, handleScroll *)

\* window.scrollY + 150
ActiveOffset == 150

\* ScanBack comparing with < instead of <=
RECURSIVE ScanBackStrict(_, _, _, _)
ScanBackStrict(d, sel, i, scrollPosition) ==
    IF i < 1 THEN <<>>
    ELSE IF d[sel[i]].offsetTop < scrollPosition
         THEN d[sel[i]].id
         ELSE ScanBackStrict(d, sel, i - 1, scrollPosition)

\* ScanBack taking the heading's text, not its id
RECURSIVE ScanBackText(_, _, _, _)
ScanBackText(d, sel, i, scrollPosition) ==
    IF i < 1 THEN <<>>
    ELSE IF d[sel[i]].offsetTop <= scrollPosition
         THEN d[sel[i]].textContent
         ELSE ScanBackText(d, sel, i - 1, scrollPosition)

\* the loop from the last heading element down to the first
RECURSIVE ScanBack(_, _, _, _)
ScanBack(d, sel, i, scrollPosition) ==
    IF i < 1 THEN <<>>
    ELSE IF d[sel[i]].offsetTop <= scrollPosition
         THEN d[sel[i]].id
         ELSE ScanBack(d, sel, i - 1, scrollPosition)

\* updateActiveHeading scanning from the first heading element up
RECURSIVE ScanForward(_, _, _, _)
ScanForward(d, sel, i, scrollPosition) ==
    IF i > Len(sel) THEN <<>>
    ELSE IF d[sel[i]].offsetTop <= scrollPosition
         THEN d[sel[i]].id
         ELSE ScanForward(d, sel, i + 1, scrollPosition)

updateActiveHeadingForward(d, a, y, old) ==
    IF ~a THEN old
    ELSE ScanForward(d, headingElements(d, a), 1, y + ActiveOffset)

\* updateActiveHeading passing over the heading that is already active
RECURSIVE ScanBackSkip(_, _, _, _, _)
ScanBackSkip(d, sel, i, scrollPosition, old) ==
    IF i < 1 THEN <<>>
    ELSE IF d[sel[i]].offsetTop <= scrollPosition /\ d[sel[i]].id # old
         THEN d[sel[i]].id
         ELSE ScanBackSkip(d, sel, i - 1, scrollPosition, old)

updateActiveHeadingSkipCurrent(d, a, y, old) ==
    IF ~a THEN old
    ELSE LET sel == headingElements(d, a)
         IN  ScanBackSkip(d, sel, Len(sel), y + ActiveOffset, old)

\* updateActiveHeading comparing offsetTop with window.scrollY alone
updateActiveHeadingNoOffset(d, a, y, old) ==
    IF ~a THEN old
    ELSE LET sel == headingElements(d, a)
         IN  ScanBack(d, sel, Len(sel), y)

\* updateActiveHeading starting from the current activeId instead of ''
updateActiveHeadingSticky(d, a, y, old) ==
    IF ~a THEN old
    ELSE LET sel == headingElements(d, a)
             found == ScanBack(d, sel, Len(sel), y + ActiveOffset)
         IN  IF found = <<>> THEN old ELSE found

updateActiveHeading(d, a, y, old) ==
    IF ~a THEN old
    ELSE LET sel == headingElements(d, a)
         IN  ScanBack(d, sel, Len(sel), y + ActiveOffset)

\* element.offsetTop - 200
VisibleMargin == 200

\* updateVisible measuring the document's first heading element when there
\* is no first entry
updateVisibleFirstElement(d, hs, y, old) ==
    IF hs # <<>> /\ getElementById(d, hs[1].id) # 0
    THEN y > d[getElementById(d, hs[1].id)].offsetTop - VisibleMargin
    ELSE IF hs = <<>> /\ d # <<>>
         THEN y > d[1].offsetTop - VisibleMargin
         ELSE old

\* updateVisible hiding the surface when the first entry's element is missing
updateVisibleResetMissing(d, hs, y, old) ==
    IF hs # <<>> /\ getElementById(d, hs[1].id) # 0
    THEN y > d[getElementById(d, hs[1].id)].offsetTop - VisibleMargin
    ELSE FALSE

\* isVisible.value after handleScroll()
updateVisible(d, hs, y, old) ==
    IF hs # <<>> /\ getElementById(d, hs[1].id) # 0
    THEN y > d[getElementById(d, hs[1].id)].offsetTop - VisibleMargin
    ELSE old

----------------------------------------------------------------------------
(* scrollToHeading *)

\* const offset = 100
ScrollOffset == 100

\* offsetPosition subtracting the offset of updateActiveHeading
offsetPositionActive(el) == el.offsetTop - ActiveOffset

\* elementPosition + window.pageYOffset - offset
offsetPosition(el) == el.offsetTop - ScrollOffset

\* `#${id}`
Fragment(id) == <<"#">> \o id

----------------------------------------------------------------------------
(* Documents and positions *)

Positions == {50 * k : k \in 0..MaxStep}

Element(tag, id, text, top, inArt) ==
    [tagName |-> tag, id |-> id, textContent |-> text, offsetTop |-> top, inArticle |-> inArt]

RECURSIVE SeqsUpTo(_, _)
SeqsUpTo(S, n) ==
    IF n = 0 THEN {<<>>}
    ELSE LET shorter == SeqsUpTo(S, n - 1)
         IN  shorter \cup {Append(t, e) : t \in {u \in shorter : Len(u) = n - 1}, e \in S}

\* headings as the renderer leaves them: with an anchor, or without one
LayoutElements ==
    {Element(<<"H","2">>, <<"a">>, <<"A">>, t, TRUE) : t \in Positions}
    \cup {Element(<<"H","3">>, <<"b">>, <<"B">>, t, TRUE) : t \in Positions}
    \cup {Element(<<"H","2">>, <<>>, <<"A">>, t, TRUE) : t \in Positions}

LayoutDocs == SeqsUpTo(LayoutElements, MaxHeadings)

GenIdle ==
    /\ genInput = <<>>
    /\ genCalled = FALSE
    /\ genResult = <<>>

Init ==
    /\ GenIdle
    /\ dom \in LayoutDocs
    /\ article \in {a \in BOOLEAN : a \/ dom = <<>>}
    /\ scrollY \in Positions
    /\ headings = <<>>
    /\ activeId = <<>>
    /\ isVisible = FALSE
    /\ phase = "created"
    /\ listeners = [scroll |-> 0, resize |-> 0]
    /\ hash = <<>>
    /\ pushes = 0
    /\ scrollTarget = <<>>
    /\ lastOp = "init"
    /\ lastArg = <<>>

----------------------------------------------------------------------------
(* Operations *)

\* onMounted without the initial handleScroll() call
onMountedNoInitialCheck ==
    /\ phase = "created"
    /\ dom' = AssignIds(dom, article)
    /\ headings' = extractHeadings(dom, article, headings)
    /\ listeners' = [scroll |-> listeners.scroll + 1, resize |-> listeners.resize + 1]
    /\ phase' = "mounted"
    /\ lastOp' = "mount"
    /\ lastArg' = <<>>
    /\ UNCHANGED <<article, scrollY, activeId, isVisible, hash, pushes, scrollTarget, genVars>>

\* onMounted: extractHeadings(), the two addEventListener calls, handleScroll()
onMounted ==
    /\ phase = "created"
    /\ LET d1 == AssignIds(dom, article)
           hs == extractHeadings(dom, article, headings)
       IN  /\ dom' = d1
           /\ headings' = hs
           /\ activeId' = updateActiveHeading(d1, article, scrollY, activeId)
           /\ isVisible' = updateVisible(d1, hs, scrollY, isVisible)
    /\ listeners' = [scroll |-> listeners.scroll + 1, resize |-> listeners.resize + 1]
    /\ phase' = "mounted"
    /\ lastOp' = "mount"
    /\ lastArg' = <<>>
    /\ UNCHANGED <<article, scrollY, hash, pushes, scrollTarget, genVars>>

\* onUnmounted removing the 'scroll' listener only
onUnmountedScrollOnly ==
    /\ phase = "mounted"
    /\ listeners' = [scroll |-> 0, resize |-> listeners.resize]
    /\ phase' = "unmounted"
    /\ lastOp' = "unmount"
    /\ lastArg' = <<>>
    /\ UNCHANGED <<article, dom, scrollY, headings, activeId, isVisible,
                   hash, pushes, scrollTarget, genVars>>

\* onUnmounted: the two removeEventListener calls
onUnmounted ==
    /\ phase = "mounted"
    /\ listeners' = [scroll |-> 0, resize |-> 0]
    /\ phase' = "unmounted"
    /\ lastOp' = "unmount"
    /\ lastArg' = <<>>
    /\ UNCHANGED <<article, dom, scrollY, headings, activeId, isVisible,
                   hash, pushes, scrollTarget, genVars>>

\* handleScroll extracting the headings again on every event
handleScrollReextract(y) ==
    /\ activeId' = updateActiveHeading(dom, article, y, activeId)
    /\ isVisible' = updateVisible(dom, headings, y, isVisible)
    /\ headings' = extractHeadings(dom, article, headings)
    /\ UNCHANGED <<dom, hash, pushes, scrollTarget>>

\* handleScroll writing the active id into the URL fragment
handleScrollSyncHash(y) ==
    /\ activeId' = updateActiveHeading(dom, article, y, activeId)
    /\ isVisible' = updateVisible(dom, headings, y, isVisible)
    /\ hash' = Fragment(updateActiveHeading(dom, article, y, activeId))
    /\ UNCHANGED <<dom, headings, pushes, scrollTarget>>

\* handleScroll() run with window.scrollY = y
handleScroll(y) ==
    /\ activeId' = updateActiveHeading(dom, article, y, activeId)
    /\ isVisible' = updateVisible(dom, headings, y, isVisible)
    /\ UNCHANGED <<dom, headings, hash, pushes, scrollTarget>>

\* the viewport scrolls to y and the 'scroll' event is dispatched
Scroll(y) ==
    /\ phase # "created"
    /\ y # scrollY
    /\ scrollY' = y
    /\ IF listeners.scroll > 0
       THEN handleScroll(y)
       ELSE UNCHANGED <<activeId, isVisible, dom, headings, hash, pushes, scrollTarget>>
    /\ lastOp' = "scroll"
    /\ lastArg' = <<>>
    /\ UNCHANGED <<article, phase, listeners, genVars>>

\* the viewport is resized and the 'resize' event is dispatched
Resize ==
    /\ phase # "created"
    /\ IF listeners.resize > 0
       THEN handleScroll(scrollY)
       ELSE UNCHANGED <<activeId, isVisible, dom, headings, hash, pushes, scrollTarget>>
    /\ lastOp' = "resize"
    /\ lastArg' = <<>>
    /\ UNCHANGED <<article, scrollY, phase, listeners, genVars>>

\* scrollToHeading leaving activeId to the next scroll event
scrollToHeadingLazy(id) ==
    /\ LET e == getElementById(dom, id)
       IN  IF e # 0
           THEN /\ scrollTarget' = <<offsetPosition(dom[e])>>
                /\ hash' = Fragment(id)
                /\ pushes' = pushes + 1
           ELSE UNCHANGED <<scrollTarget, hash, pushes>>
    /\ lastOp' = "navigate"
    /\ lastArg' = id
    /\ UNCHANGED <<article, dom, scrollY, headings, activeId, isVisible, phase,
                   listeners, genVars>>

\* scrollToHeading without the `if (element)` test around pushState and activeId
scrollToHeadingUnguarded(id) ==
    /\ LET e == getElementById(dom, id)
       IN  IF e # 0
           THEN scrollTarget' = <<offsetPosition(dom[e])>>
           ELSE UNCHANGED scrollTarget
    /\ hash' = Fragment(id)
    /\ pushes' = pushes + 1
    /\ activeId' = id
    /\ lastOp' = "navigate"
    /\ lastArg' = id
    /\ UNCHANGED <<article, dom, scrollY, headings, isVisible, phase, listeners, genVars>>

\* scrollToHeading(id)
scrollToHeading(id) ==
    /\ LET e == getElementById(dom, id)
       IN  IF e # 0
           THEN /\ scrollTarget' = <<offsetPosition(dom[e])>>
                /\ hash' = Fragment(id)
                /\ pushes' = pushes + 1
                /\ activeId' = id
           ELSE UNCHANGED <<scrollTarget, hash, pushes, activeId>>
    /\ lastOp' = "navigate"
    /\ lastArg' = id
    /\ UNCHANGED <<article, dom, scrollY, headings, isVisible, phase, listeners, genVars>>

\* @click.prevent on the link of the i-th entry
Click(i) ==
    /\ phase = "mounted"
    /\ pushes < MaxPushes
    /\ i \in 1..Len(headings)
    /\ scrollToHeading(headings[i].id)

\* the page removes a heading element from the document
RemoveElement(i) ==
    /\ phase = "mounted"
    /\ i \in 1..Len(dom)
    /\ dom' = [k \in 1..(Len(dom) - 1) |-> IF k < i THEN dom[k] ELSE dom[k + 1]]
    /\ lastOp' = "remove"
    /\ lastArg' = <<>>
    /\ UNCHANGED <<article, scrollY, headings, activeId, isVisible, phase, listeners,
                   hash, pushes, scrollTarget, genVars>>

Next ==
    \/ onMounted
    \/ onUnmounted
    \/ \E y \in Positions : Scroll(y)
    \/ Resize
    \/ \E i \in 1..MaxHeadings : Click(i)
    \/ \E i \in 1..MaxHeadings : RemoveElement(i)

Spec == Init /\ [][Next]_vars

----------------------------------------------------------------------------
(* Extraction on documents with every kind of heading element *)

AllTags == {<<"H", DigitChars[n + 1]>> : n \in 1..6}

AuthoredIds == {<<>>, <<"a">>}

ContentTexts == {<<"A">>, <<"B"," ","b">>, <<"&">>}

\* any heading inside article.prose, or an h2 outside of it
ContentElements ==
    {Element(tag, id, text, 0, TRUE) : tag \in AllTags, id \in AuthoredIds, text \in ContentTexts}
    \cup {Element(<<"H","2">>, id, text, 0, FALSE) : id \in AuthoredIds, text \in ContentTexts}

ContentDocs == SeqsUpTo(ContentElements, MaxHeadings)

ExtractInit ==
    /\ GenIdle
    /\ dom \in ContentDocs
    /\ article \in {a \in BOOLEAN : a \/ \A i \in 1..Len(dom) : ~dom[i].inArticle}
    /\ scrollY = 0
    /\ headings = <<>>
    /\ activeId = <<>>
    /\ isVisible = FALSE
    /\ phase = "created"
    /\ listeners = [scroll |-> 0, resize |-> 0]
    /\ hash = <<>>
    /\ pushes = 0
    /\ scrollTarget = <<>>
    /\ lastOp = "init"
    /\ lastArg = <<>>

ExtractNext ==
    \/ onMounted
    \/ onUnmounted
    \/ Resize
    \/ \E i \in 1..MaxHeadings : Click(i)

SpecExtract == ExtractInit /\ [][ExtractNext]_vars

----------------------------------------------------------------------------
(* Layouts with a heading whose text has no word character *)

SymbolElements ==
    {Element(<<"H","2">>, <<"a">>, <<"A">>, t, TRUE) : t \in Positions}
    \cup {Element(<<"H","2">>, <<>>, <<"&">>, t, TRUE) : t \in Positions}

SymbolDocs == SeqsUpTo(SymbolElements, MaxHeadings)

SymbolInit ==
    /\ GenIdle
    /\ dom \in SymbolDocs
    /\ article = TRUE
    /\ scrollY \in Positions
    /\ headings = <<>>
    /\ activeId = <<>>
    /\ isVisible = FALSE
    /\ phase = "created"
    /\ listeners = [scroll |-> 0, resize |-> 0]
    /\ hash = <<>>
    /\ pushes = 0
    /\ scrollTarget = <<>>
    /\ lastOp = "init"
    /\ lastArg = <<>>

SpecSymbol == SymbolInit /\ [][Next]_vars

----------------------------------------------------------------------------
(* Documents without any h2, h3 or h4 inside article.prose *)

BareElements ==
    {Element(<<"H","1">>, <<"a">>, <<"A">>, t, TRUE) : t \in Positions}
    \cup {Element(<<"H","5">>, <<>>, <<"A">>, t, TRUE) : t \in Positions}
    \cup {Element(<<"H","2">>, <<"a">>, <<"A">>, t, FALSE) : t \in Positions}

BareDocs == SeqsUpTo(BareElements, MaxHeadings)

BareInit ==
    /\ GenIdle
    /\ dom \in BareDocs
    /\ article \in {a \in BOOLEAN : a \/ \A i \in 1..Len(dom) : ~dom[i].inArticle}
    /\ scrollY \in Positions
    /\ headings = <<>>
    /\ activeId = <<>>
    /\ isVisible = FALSE
    /\ phase = "created"
    /\ listeners = [scroll |-> 0, resize |-> 0]
    /\ hash = <<>>
    /\ pushes = 0
    /\ scrollTarget = <<>>
    /\ lastOp = "init"
    /\ lastArg = <<>>

\* no link is rendered for an empty outline (v-if="headings.length > 0"), so
\* no click reaches scrollToHeading
BareNext ==
    \/ onMounted
    \/ onUnmounted
    \/ \E y \in Positions : Scroll(y)
    \/ Resize
    \/ \E i \in 1..MaxHeadings : RemoveElement(i)

SpecBare == BareInit /\ [][BareNext]_vars

----------------------------------------------------------------------------
(* Properties *)

\* the h2, h3 and h4 elements inside article.prose, as indices of dom
Qualifying ==
    {i \in 1..Len(dom) :
        /\ article
        /\ dom[i].inArticle
        /\ dom[i].tagName \in {<<"H","2">>, <<"H","3">>, <<"H","4">>}}

\* the k-th element of a set of indices, in increasing order
Nth(S, k) == CHOOSE i \in S : Cardinality({j \in S : j < i}) = k - 1

Max(S) == CHOOSE i \in S : \A j \in S : j <= i

Min(S) == CHOOSE i \in S : \A j \in S : i <= j

\* handleScroll has just run in the mounted component
Ticked == phase = "mounted" /\ lastOp \in {"mount", "scroll", "resize"}

\* the qualifying headings whose top is at or above scrollY + 150
AtOrAbove == {i \in Qualifying : dom[i].offsetTop <= scrollY + 150}

\* scrollToHeading(lastArg) has just run and found its element
Navigated ==
    /\ lastOp = "navigate"
    /\ lastArg # <<>>
    /\ \E i \in 1..Len(dom) : dom[i].id = lastArg

\* the element document.getElementById(lastArg) returns
Target == Min({i \in 1..Len(dom) : dom[i].id = lastArg})

\* C1: after a scroll or resize tick at scroll offset s, activeId is the id of
\* the last heading in document order whose top is <= s + 150.
C1_ActiveIsLastAtOrAbove ==
    (Ticked /\ AtOrAbove # {}) => activeId = dom[Max(AtOrAbove)].id

\* C1 witness: a scroll tick with the threshold between two consecutive headings
C1_Witness ==
    /\ Ticked
    /\ lastOp = "scroll"
    /\ \E i \in Qualifying :
          /\ i + 1 \in Qualifying
          /\ dom[i].offsetTop <= scrollY + 150
          /\ scrollY + 150 < dom[i + 1].offsetTop
          /\ dom[i].id # dom[i + 1].id
          /\ activeId = dom[i].id

C3_UniqueIds ==
    phase # "created" =>
        \A i, j \in 1..Len(headings) : i # j => headings[i].id # headings[j].id

\* C4 as stated: a generated id neither begins nor ends with a hyphen.
C4_NoEdgeHyphen ==
    (genCalled /\ genResult # <<>>) =>
        genResult[1] # "-" /\ genResult[Len(genResult)] # "-"

\* every maximal run of white space and/or hyphens becomes one hyphen
RECURSIVE RunsToHyphen(_)
RunsToHyphen(s) ==
    IF s = <<>> THEN <<>>
    ELSE IF Head(s) \in {" ", "\t", "\n", "-"}
         THEN IF Len(s) > 1 /\ s[2] \in {" ", "\t", "\n", "-"}
              THEN RunsToHyphen(Tail(s))
              ELSE <<"-">> \o RunsToHyphen(Tail(s))
         ELSE <<Head(s)>> \o RunsToHyphen(Tail(s))

SlugChars == Range(LowerChars) \cup Range(DigitChars) \cup {"_", "-"}

\* the text lowercased, without the characters that are not word characters,
\* white space or hyphens
Kept(text) ==
    SelectSeq(toLowerCase(text), LAMBDA c : c \in SlugChars \cup {" ", "\t", "\n"})

\* C5: the generated id is the text lowercased, symbols removed, every run of
\* white space and/or hyphens replaced by one hyphen; it has only lowercase
\* word characters and hyphens, never two adjacent hyphens, and
\* "API & Usage!" gives "api-usage".
C5_SlugShape ==
    genCalled =>
        /\ genResult = RunsToHyphen(Kept(genInput))
        /\ Range(genResult) \subseteq SlugChars
        /\ \A i \in 1..(Len(genResult) - 1) : ~(genResult[i] = "-" /\ genResult[i + 1] = "-")
        /\ genInput = ScenarioText =>
               genResult = <<"a","p","i","-","u","s","a","g","e">>

\* C5 witness: generateId has returned for a text with a hyphen next to white space
C5_Witness ==
    /\ genCalled
    /\ genInput = <<"A", " ", "-", "b">>
    /\ genResult = <<"a", "-", "b">>

\* C6 as stated: after extraction every qualifying heading element has a
\* non-empty id equal to the id of its entry, and keeps it afterwards.
C6_UsableIds ==
    phase # "created" =>
        /\ Len(headings) = Cardinality(Qualifying)
        /\ \A k \in 1..Len(headings) :
              /\ dom[Nth(Qualifying, k)].id # <<>>
              /\ dom[Nth(Qualifying, k)].id = headings[k].id

\* C7: extracting again from the unchanged document gives the same entries and
\* changes no element's id.
C7_ExtractIdempotent ==
    phase # "created" =>
        /\ extractHeadings(dom, article, headings) = headings
        /\ AssignIds(dom, article) = dom

\* C7 witness: extraction has assigned a generated id to an anchorless heading
C7_Witness ==
    /\ lastOp = "mount"
    /\ \E k \in 1..Len(headings) :
          /\ headings[k].id = <<"b", "-", "b">>
          /\ dom[Nth(Qualifying, k)].id = <<"b", "-", "b">>

\* C8: the outline has one entry per h2/h3/h4 of article.prose, in document
\* order, with level the heading's level and text the heading's text.
C8_OutlineMatchesDocument ==
    phase # "created" =>
        /\ Len(headings) = Cardinality(Qualifying)
        /\ \A k \in 1..Len(headings) :
              LET el == dom[Nth(Qualifying, k)]
              IN  /\ headings[k].text = el.textContent
                  /\ headings[k].level \in 2..4
                  /\ el.tagName = <<"H", DigitChars[headings[k].level + 1]>>

\* C8 witness: two entries of different level and text, extracted at mount
C8_Witness ==
    /\ lastOp = "mount"
    /\ Len(headings) = 2
    /\ headings[1].level = 4
    /\ headings[2].level = 2
    /\ headings[1].text # headings[2].text

\* C9 as stated: at scroll offset exactly (top of h) - 150, with no later
\* heading at the same top, h is active; below the first heading's threshold
\* activeId is empty.
C9_InclusiveThreshold ==
    Ticked =>
        /\ \A i \in Qualifying :
              (/\ scrollY = dom[i].offsetTop - 150
               /\ \A j \in Qualifying : j > i => dom[j].offsetTop # dom[i].offsetTop)
              => activeId = dom[i].id
        /\ (Qualifying # {} /\ scrollY + 150 < dom[Min(Qualifying)].offsetTop)
              => activeId = <<>>

\* C9 amended: at scroll offset exactly (top of h) - 150, with no later heading
\* whose top is at or above that of h, h is active; when the document has
\* headings and the scroll offset is below the threshold of every one of them,
\* activeId is empty.
C9_InclusiveThresholdNoLaterAbove ==
    Ticked =>
        /\ \A i \in Qualifying :
              (/\ scrollY = dom[i].offsetTop - 150
               /\ \A j \in Qualifying : j > i => dom[j].offsetTop > dom[i].offsetTop)
              => activeId = dom[i].id
        /\ (Qualifying # {} /\ \A i \in Qualifying : scrollY + 150 < dom[i].offsetTop)
              => activeId = <<>>

\* C9 witness: a scroll tick that stops exactly at a heading's threshold
C9_Witness ==
    /\ Ticked
    /\ lastOp = "scroll"
    /\ \E i \in Qualifying :
          /\ scrollY = dom[i].offsetTop - 150
          /\ \A j \in Qualifying : j > i => dom[j].offsetTop > dom[i].offsetTop
          /\ dom[i].id # <<>>
          /\ activeId = dom[i].id

\* C10: a scrollToHeading call whose element exists has, in the state it
\* produces, set the fragment to '#' + id and activeId to id.
C10_NavigateIsImmediate ==
    Navigated => hash = <<"#">> \o lastArg /\ activeId = lastArg

\* C10 witness: after the click activeId is the target although a scroll tick
\* at this offset would choose otherwise
C10_Witness ==
    /\ Navigated
    /\ activeId = lastArg
    /\ hash = <<"#">> \o lastArg
    /\ \A i \in AtOrAbove : dom[i].id # lastArg

\* C11: scrollToHeading with an id that no element carries changes neither
\* headings, activeId, isVisible, the scroll position, the fragment, the
\* history nor the document.
C11_MissingTargetNoOp ==
    [][(lastOp' = "navigate" /\ \A i \in 1..Len(dom) : dom[i].id # lastArg')
          => UNCHANGED <<headings, activeId, isVisible, scrollY, scrollTarget,
                         hash, pushes, dom, article, phase, listeners>>]_vars

\* C11 witness: a click on an entry whose element was removed from the document
C11_Witness ==
    /\ lastOp = "navigate"
    /\ lastArg # <<>>
    /\ \E k \in 1..Len(headings) : headings[k].id = lastArg
    /\ \A i \in 1..Len(dom) : dom[i].id # lastArg

\* every entry of the outline still has its element in the document
Unmutated == Len(headings) = Cardinality(Qualifying)

\* C12 as stated: after a scroll or resize tick on a document with a non-empty
\* outline, isVisible is TRUE exactly when scrollY > (top of the first
\* heading) - 200.
C12_VisibleIffPastFirstHeading ==
    (/\ phase = "mounted"
     /\ lastOp \in {"scroll", "resize"}
     /\ headings # <<>>
     /\ Unmutated)
    => (isVisible <=> scrollY > dom[Min(Qualifying)].offsetTop - 200)

\* C13: with article.prose present but without any h2, h3 or h4 in it, the
\* outline is empty and isVisible is FALSE in every reachable state.
C13_NoHeadingsNeverVisible ==
    (article /\ Qualifying = {}) => (headings = <<>> /\ isVisible = FALSE)

\* C13 witness: a scroll tick far below an h1 of the article
C13_Witness ==
    /\ article
    /\ phase = "mounted"
    /\ lastOp = "scroll"
    /\ \E i \in 1..Len(dom) : dom[i].inArticle /\ dom[i].offsetTop = 0
    /\ scrollY = 250
    /\ headings = <<>>
    /\ isVisible = FALSE

\* C14: without article.prose at mount the outline is empty and stays empty,
\* and isVisible is FALSE in every reachable state.
C14_NoContainerNeverVisible ==
    ~article => (headings = <<>> /\ isVisible = FALSE /\ activeId = <<>>)

\* C14 witness: a scroll tick in a mounted view whose document has an h2 but
\* no article.prose
C14_Witness ==
    /\ ~article
    /\ phase = "mounted"
    /\ lastOp = "scroll"
    /\ \E i \in 1..Len(dom) : dom[i].tagName = <<"H","2">> /\ dom[i].offsetTop = 0
    /\ scrollY = 250
    /\ headings = <<>>
    /\ isVisible = FALSE

\* C15: both listeners are registered once at mount and removed at unmount;
\* after unmount no event changes activeId or isVisible.
C15_ListenersFollowLifecycle ==
    /\ [](/\ phase = "mounted" => listeners = [scroll |-> 1, resize |-> 1]
          /\ phase # "mounted" => listeners = [scroll |-> 0, resize |-> 0])
    /\ [][phase = "unmounted" => UNCHANGED <<activeId, isVisible>>]_vars

\* C15 witness: a scroll after unmount that left activeId stale
C15_Witness ==
    /\ phase = "unmounted"
    /\ lastOp = "scroll"
    /\ listeners = [scroll |-> 0, resize |-> 0]
    /\ AtOrAbove # {}
    /\ activeId # dom[Max(AtOrAbove)].id

\* C16: after mount, headings is never changed again, whatever happens to the
\* document.
C16_EntriesFixedAfterMount ==
    [][phase # "created" => headings' = headings]_vars

\* C16 witness: a scroll, resize or click after an element of the outline was
\* removed from the document
C16_Witness ==
    /\ phase = "mounted"
    /\ lastOp \in {"scroll", "resize", "navigate"}
    /\ Len(headings) > Len(dom)

\* C17: running updateActiveHeading again at the same scroll offset on the
\* same document gives the activeId the first run produced.
C17_ResolveIdempotent ==
    Ticked => updateActiveHeading(dom, article, scrollY, activeId) = activeId

\* C17 witness: a resize tick that left a heading active
C17_Witness ==
    /\ Ticked
    /\ lastOp = "resize"
    /\ AtOrAbove # {}
    /\ activeId # <<>>
    /\ activeId = dom[Max(AtOrAbove)].id

\* the first element that carries the id of the first entry, 0 if none
FirstEntryElement ==
    IF headings # <<>> /\ headings[1].id # <<>>
       /\ \E i \in 1..Len(dom) : dom[i].id = headings[1].id
    THEN Min({i \in 1..Len(dom) : dom[i].id = headings[1].id})
    ELSE 0

\* C18: a scroll or resize tick leaves headings, the elements (their ids
\* included), the fragment, the history and the scroll position as they are;
\* isVisible follows its own rule, whatever activeId becomes.
C18_ResolveFrame ==
    [][(phase = "mounted" /\ lastOp' \in {"scroll", "resize"})
          => /\ UNCHANGED <<headings, dom, hash, pushes, scrollTarget>>
             /\ lastOp' = "resize" => scrollY' = scrollY
             /\ isVisible' = IF FirstEntryElement # 0
                             THEN scrollY' > dom[FirstEntryElement].offsetTop - 200
                             ELSE isVisible]_vars

\* C18 witness: a resize tick recomputed activeId after a click and left the
\* fragment of the click in place
C18_Witness ==
    /\ phase = "mounted"
    /\ lastOp = "resize"
    /\ hash # <<>>
    /\ hash # <<"#">> \o activeId

\* C19: extraction leaves every element that has an id as it is, gives its
\* entry that id, and changes nothing but the id of the others.
C19_AnchorsKept ==
    [][(phase = "created" /\ phase' = "mounted")
          => /\ Len(dom') = Len(dom)
             /\ \A i \in 1..Len(dom) :
                   /\ (dom[i].id # <<>> \/ i \notin Qualifying) => dom'[i] = dom[i]
                   /\ [dom'[i] EXCEPT !.id = <<>>] = [dom[i] EXCEPT !.id = <<>>]
             /\ Len(headings') = Cardinality(Qualifying)
             /\ \A k \in 1..Cardinality(Qualifying) :
                   dom[Nth(Qualifying, k)].id # <<>>
                      => headings'[k].id = dom[Nth(Qualifying, k)].id]_vars

\* C19 witness: an entry whose id is the authored anchor, not the id its text
\* would generate
C19_Witness ==
    /\ lastOp = "mount"
    /\ \E k \in 1..Len(headings) :
          /\ headings[k].id = <<"a">>
          /\ headings[k].text = <<"B", " ", "b">>
          /\ dom[Nth(Qualifying, k)].id = <<"a">>

\* offsetTop does not decrease with document order
Monotone ==
    \A i, j \in Qualifying : i < j => dom[i].offsetTop <= dom[j].offsetTop

\* C20 as stated: the active heading is the one with the greatest top among
\* those with top <= scrollY + 150, for every layout.
C20_ActiveIsGreatestTop ==
    (Ticked /\ AtOrAbove # {}) =>
        \E i \in AtOrAbove :
            /\ activeId = dom[i].id
            /\ \A j \in AtOrAbove : dom[j].offsetTop <= dom[i].offsetTop

\* C20 amended: when the tops do not decrease with document order, the active
\* heading is the one with the greatest top among those with top <=
\* scrollY + 150.
C20_ActiveIsGreatestTopIfMonotone ==
    (Ticked /\ AtOrAbove # {} /\ Monotone) =>
        \E i \in AtOrAbove :
            /\ activeId = dom[i].id
            /\ \A j \in AtOrAbove : dom[j].offsetTop <= dom[i].offsetTop

\* C20 witness: two headings above the threshold, the lower one active
C20_Witness ==
    /\ Ticked
    /\ Monotone
    /\ \E i, j \in AtOrAbove :
          /\ dom[i].offsetTop < dom[j].offsetTop
          /\ dom[i].id # dom[j].id
          /\ activeId = dom[j].id

\* the id of the last h2, h3 or h4 of article.prose with top <= y + 150, '' if
\* there is none: a value of the document and the scroll offset alone
ActiveAt(y) ==
    LET S == {i \in Qualifying : dom[i].offsetTop <= y + 150}
    IN  IF S = {} THEN <<>> ELSE dom[Max(S)].id

\* whether y is past the top, minus 200, of the first element that carries the
\* id of the first h2, h3 or h4 of article.prose; FALSE when there is no such
\* heading or its id is '': a value of the document and the scroll offset alone
VisibleAt(y) ==
    IF Qualifying # {} /\ dom[Min(Qualifying)].id # <<>>
    THEN LET first == Min({i \in 1..Len(dom) : dom[i].id = dom[Min(Qualifying)].id})
         IN  y > dom[first].offsetTop - 200
    ELSE FALSE

\* C21: after a scroll or resize tick on a document that nobody changed since
\* the extraction, activeId and isVisible are determined by the scroll offset
\* and the headings' positions alone, whatever was clicked before and in
\* whatever order the events came.
C21_TickForgetsNavigate ==
    (phase = "mounted" /\ lastOp \in {"scroll", "resize"} /\ Unmutated) =>
        /\ activeId = ActiveAt(scrollY)
        /\ isVisible = VisibleAt(scrollY)

\* C21 witness: a scroll tick after a click replaced the id set by the click
C21_Witness ==
    /\ phase = "mounted"
    /\ lastOp = "scroll"
    /\ Unmutated
    /\ hash # <<>>
    /\ hash # <<"#">> \o activeId
    /\ activeId = ActiveAt(scrollY)
    /\ isVisible

\* C22: every entry has level 2, 3 or 4, and there are exactly as many entries
\* as h2, h3 and h4 elements inside article.prose: an h1, h5 or h6, or a
\* heading outside article.prose, gives no entry.
C22_DepthTwoToFour ==
    phase # "created" =>
        /\ \A k \in 1..Len(headings) : headings[k].level \in {2, 3, 4}
        /\ Len(headings) =
              Cardinality({i \in 1..Len(dom) :
                              /\ article
                              /\ dom[i].inArticle
                              /\ dom[i].tagName[1] = "H"
                              /\ dom[i].tagName[2] \in {"2", "3", "4"}})

\* C22 witness: a mounted outline of one entry over a document that also has
\* an h1, h5 or h6 inside article.prose
C22_Witness ==
    /\ lastOp = "mount"
    /\ Len(headings) = 1
    /\ headings[1].level \in {2, 3, 4}
    /\ \E i \in 1..Len(dom) :
          /\ dom[i].inArticle
          /\ dom[i].tagName \in {<<"H","1">>, <<"H","5">>, <<"H","6">>}

\* C24 as stated, on the documents where it is least in doubt (tops strictly
\* increasing with document order, no two elements with the same id): after a
\* click on an entry, once the viewport is at the requested offset (the
\* heading's top minus 100), a scroll or resize tick on the unchanged document
\* leaves the clicked heading active.
C24_NavigateStable ==
    (/\ phase = "mounted"
     /\ lastOp \in {"scroll", "resize"}
     /\ Unmutated
     /\ \A i, j \in 1..Len(dom) :
           i < j => dom[i].offsetTop < dom[j].offsetTop /\ dom[i].id # dom[j].id
     /\ scrollTarget # <<>>
     /\ scrollY = scrollTarget[1]) => hash = <<"#">> \o activeId

\* C25 as stated: a click on the i-th entry of an unchanged document scrolls
\* to the top, minus 100, of the i-th h2, h3 or h4 element of article.prose
\* itself.
C25_NavigateToOwnElement ==
    [][\A i \in 1..Len(headings) :
          (Unmutated /\ Click(i))
             => scrollTarget' = <<dom[Nth(Qualifying, i)].offsetTop - 100>>]_vars

\* C26 as stated: at most one entry has the id that equals activeId, so at
\* most one <li> carries toc-item-active.
C26_OneActiveEntry ==
    Cardinality({k \in 1..Len(headings) : headings[k].id = activeId}) <= 1

\* C27: while the component is mounted over a document nobody changed since
\* the extraction, activeId is '' or the id of one of the entries.
C27_ActiveIsAnEntry ==
    (phase = "mounted" /\ Unmutated) =>
        \/ activeId = <<>>
        \/ \E k \in 1..Len(headings) : headings[k].id = activeId

\* C27 witness: a scroll tick made the second of two entries with different
\* ids the active one
C27_Witness ==
    /\ phase = "mounted"
    /\ Unmutated
    /\ lastOp = "scroll"
    /\ Len(headings) = 2
    /\ headings[1].id # headings[2].id
    /\ activeId # <<>>
    /\ activeId = headings[2].id

\* C28 as stated: while the component is mounted over an unchanged document
\* whose heading tops do not decrease with document order, a non-empty
\* activeId implies isVisible.
C28_ActiveImpliesVisible ==
    (phase = "mounted" /\ Unmutated /\ Monotone) => (activeId # <<>> => isVisible)

\* C29: when the document was changed after the extraction so that no element
\* carries the first entry's id any more, a scroll or resize tick leaves
\* isVisible as it was, and still sets activeId from the remaining headings
\* and the scroll offset.
C29_MissingFirstKeepsVisible ==
    [][(/\ phase = "mounted"
        /\ lastOp' \in {"scroll", "resize"}
        /\ headings # <<>>
        /\ ~Unmutated
        /\ FirstEntryElement = 0)
          => /\ isVisible' = isVisible
             /\ activeId' = ActiveAt(scrollY')]_vars

\* C29 witness: after the first heading was removed, a tick left the surface
\* visible and made a remaining heading the active one
C29_Witness ==
    /\ phase = "mounted"
    /\ lastOp \in {"scroll", "resize"}
    /\ headings # <<>>
    /\ ~Unmutated
    /\ FirstEntryElement = 0
    /\ isVisible
    /\ activeId # <<>>
    /\ activeId # headings[1].id

\* C30: right after mount, before any scroll or resize event, both listeners
\* are registered and activeId and isVisible already have the values a tick at
\* the current scroll offset gives on the extracted document.
C30_InitialCheck ==
    lastOp = "mount" =>
        /\ listeners = [scroll |-> 1, resize |-> 1]
        /\ Len(headings) = Cardinality(Qualifying)
        /\ activeId = ActiveAt(scrollY)
        /\ isVisible = VisibleAt(scrollY)

\* C30 witness: the component has just mounted on a page already scrolled past
\* its headings: a heading is active and the surface is visible
C30_Witness ==
    /\ lastOp = "mount"
    /\ phase = "mounted"
    /\ scrollY > 0
    /\ headings # <<>>
    /\ activeId # <<>>
    /\ isVisible

====
